---- MODULE Spec2Model ----
(***************************************************************************)
(* Model of the local reverse geocoder (src/geocoder.js): the staged       *)
(* ingestion done by init, the tables it fills, the k-d tree of place      *)
(* records and the lookUp query path that re-ranks and enriches the        *)
(* candidates.                                                             *)
(*                                                                         *)
(* JavaScript values are modelled as tagged records (JsNull, JsUndef,      *)
(* JsStr, JsNum, objects with t = "object"); strings are TLA+ strings and  *)
(* template literals are string concatenation.  A line of a dump file is   *)
(* the sequence of its tab-separated columns.                              *)
(***************************************************************************)
EXTENDS Integers, Sequences, FiniteSets, TLC

VARIABLES
    pc,              \* position of init in its async.series / waterfall
    dump,            \* the lines of each dump file, as its parser reads them
    closed,          \* the parsers that have emitted 'close'
    load,            \* options.load after defaulting
    row,             \* number of lines the active parser has consumed
    data,            \* the local array `data` of _parseGeoNamesCitiesCsv
    alternateNames,  \* geocoder._alternateNames
    countryInfo,     \* geocoder._countryInfo
    admin1Codes,     \* geocoder._admin1Codes
    admin2Codes,     \* geocoder._admin2Codes
    admin3Codes,     \* geocoder._admin3Codes
    admin4Codes,     \* geocoder._admin4Codes
    kdTree,          \* geocoder._kdTree: null, or the place records it holds
    last             \* what the most recent lookUp call did and delivered

vars == <<pc, dump, closed, load, row, data, alternateNames, countryInfo,
          admin1Codes, admin2Codes, admin3Codes, admin4Codes, kdTree, last>>

tables == <<alternateNames, countryInfo, admin1Codes, admin2Codes,
            admin3Codes, admin4Codes>>

\* a value computed once and then used under a name, as a `const` of the code
With(value, F(_)) == F(value)

(***************************************************************************)
(* JavaScript values                                                       *)
(***************************************************************************)
JsNull == [t |-> "null"]

JsUndef == [t |-> "undefined"]

JsStr(s) == [t |-> "string", s |-> s]

JsNum(n) == [t |-> "number", n |-> n]

EmptyObject == [x \in {} |-> JsUndef]

\* Boolean(v) for the values the code tests
Truthy(v) ==
    CASE v.t = "string" -> v.s /= ""
      [] v.t = "number" -> v.n /= 0
      [] v.t = "object" -> TRUE
      [] OTHER -> FALSE

\* a || b
OrElse(a, b) == IF Truthy(a) THEN a ELSE b

\* the string a template literal or a property key makes of a value
ToStr(v) ==
    CASE v.t = "string" -> v.s
      [] v.t = "null" -> "null"
      [] v.t = "undefined" -> "undefined"
      [] OTHER -> "[object Object]"

\* line[i] of a split line, i counted from 0 as in the code
At(line, i) == IF i + 1 <= Len(line) THEN JsStr(line[i + 1]) ELSE JsUndef

\* table[key] of an object used as a map
Get(table, key) == IF key \in DOMAIN table THEN table[key] ELSE JsUndef

\* table[key] = value
Put(table, key, value) == [k \in DOMAIN table \cup {key} |->
                              IF k = key THEN value ELSE table[k]]

\* the decimal strings of the dump files and the numbers they denote
NumericValue ==
    ("0" :> 0) @@ ("1" :> 1) @@ ("2" :> 2) @@ ("10" :> 10) @@
    ("500" :> 500) @@ ("1000" :> 1000)

\* the strings Number() takes for 0: the empty one and those of white space
Blank == {"", " "}

\* isNaN(v) for a column value
IsNaN(v) ==
    CASE v.t = "string" -> v.s \notin Blank /\ v.s \notin DOMAIN NumericValue
      [] v.t = "undefined" -> TRUE
      [] OTHER -> FALSE

\* Number(v)
ToNumber(v) ==
    CASE v.t = "string" -> IF v.s \in Blank THEN 0 ELSE NumericValue[v.s]
      [] v.t = "number" -> v.n
      [] OTHER -> 0

\* NaN among the numbers: the grid, the distances and the populations are all
\* at least 0
NaN == -1

\* parseFloat(v)
ParseFloat(v) ==
    CASE v.t = "number" -> v.n
      [] v.t = "string" -> IF v.s \in DOMAIN NumericValue THEN NumericValue[v.s] ELSE NaN
      [] OTHER -> NaN

Min(a, b) == IF a <= b THEN a ELSE b

Abs(n) == IF n < 0 THEN -n ELSE n

(***************************************************************************)
(* The dump files: every line is the sequence of its columns               *)
(***************************************************************************)
GEONAMES_ADMIN_CODES_COLUMNS == <<"concatenatedCodes", "name", "asciiName", "geoNameId">>

CityLine(id, name, lat, lon, cc, a1, a2, a3, a4, pop) ==
    <<id, name, name, "", lat, lon, "P", "PPL", cc, "", a1, a2, a3, a4, pop,
      "", "", "Europe/Madrid", "2020-01-01">>

AdminFeatureLine(id, name, code, cc, a1, a2, a3, a4) ==
    <<id, name, name, "", "0", "0", "A", code, cc, "", a1, a2, a3, a4, "0",
      "", "", "Europe/Madrid", "2020-01-01">>

CountryLine(cc, geoId) ==
    <<cc, "ESP", "724", "SP", "Spain", "Madrid", "", "", "EU", ".es", "EUR",
      "Euro", "34", "", "", "es", geoId, "", "">>

AlternateNamesFile ==
    << <<"11", "100", "en", "Spain", "", "", "", "">>,
       <<"12", "1", "ca", "Girona", "", "", "", "">>,
       <<"13", "1", "es", "Gerona", "1", "", "", "">> >>

CitiesFile ==
    << CityLine("1", "Girona", "1", "0", "ES", "09", "GI", "17079", "01", "1000"),
       CityLine("2", "SmallTown", "0", "1", "ES", "09", "", "", "", "10"),
       CityLine("3", "TwinTown", "0", "1", "ES", "77", "", "", "", "500"),
       CityLine("4", "Hamlet", "2", "2", "FR", "", "", "", "", ""),
       CityLine("5", "Outpost", "2", "2", "ES", "09", "B", "", "", "0") >>

CountryInfoFile == << CountryLine("ES", "100") >>

Admin1File == << <<"ES.09", "Catalunya", "Catalonia", "200">> >>

Admin2File == << <<"ES.09.GI", "Girona Province", "Provincia de Girona", "300">> >>

AllCountriesFile ==
    << AdminFeatureLine("400", "Girona Municipality", "ADM3", "ES", "09", "GI", "17079", ""),
       AdminFeatureLine("500", "Barri Vell", "ADM4", "ES", "09", "GI", "17079", "01") >>

(***************************************************************************)
(* The per-line handlers of the parsers.  Each returns the table after the *)
(* line, and whether the handler threw.                                    *)
(***************************************************************************)
Outcome(table, threw) == [table |-> table, threw |-> threw]

\* _parseGeoNamesAlternateNamesCsv, the 'line' handler
AlternateNamesLine(table, line) ==
    LET geoNameId == ToStr(At(line, 1))
        isoLanguage == At(line, 2)
        altName == At(line, 3)
        isPreferredName == At(line, 4)
        names == IF geoNameId \in DOMAIN table THEN table[geoNameId] ELSE EmptyObject
        lang == ToStr(isoLanguage)
        seen == lang \in DOMAIN names /\ names[lang] /= ""
    IN IF Truthy(isoLanguage) /\ isoLanguage /= JsStr("link")
       THEN IF ~seen \/ isPreferredName = JsStr("1")
            THEN IF altName = JsUndef
                 THEN Outcome(Put(table, geoNameId, names), TRUE)
                 ELSE Outcome(Put(table, geoNameId, Put(names, lang, altName.s)), FALSE)
            ELSE Outcome(Put(table, geoNameId, names), FALSE)
       ELSE Outcome(table, FALSE)

\* _parseGeoNamesCountryInfoCsv, the 'line' handler
CountryInfoLine(table, alt, line) ==
    LET countryGeoId == At(line, 16)
        code == At(line, 0)
    IN IF code /= JsStr("") /\ Truthy(countryGeoId)
       THEN IF alt = JsNull
            THEN Outcome(Put(table, ToStr(code),
                             [geoId |-> countryGeoId, alternateNames |-> JsUndef]), TRUE)
            ELSE Outcome(Put(table, ToStr(code),
                             [geoId |-> countryGeoId,
                              alternateNames |-> Get(alt, ToStr(countryGeoId))]), FALSE)
       ELSE Outcome(table, FALSE)

\* the object an admin codes line leaves under its key
AdminEntry(line, alt) ==
    [t |-> "object",
     name |-> OrElse(At(line, 1), JsNull),
     asciiName |-> OrElse(At(line, 2), JsNull),
     geoNameId |-> OrElse(At(line, 3), JsNull),
     alternateNames |-> IF alt = JsNull THEN JsUndef ELSE Get(alt, ToStr(At(line, 3)))]

\* _parseGeoNamesAdmin1CodesCsv and _parseGeoNamesAdmin2CodesCsv, the 'line' handler
AdminCodesLine(table, alt, line) ==
    LET value == OrElse(At(line, 0), JsNull)
        key == ToStr(At(line, 0))
        started == Put(table, ToStr(value), [t |-> "object", name |-> JsUndef,
                       asciiName |-> JsUndef, geoNameId |-> JsUndef,
                       alternateNames |-> JsUndef])
    IN IF key \notin DOMAIN started
       THEN Outcome(started, TRUE)
       ELSE IF alt = JsNull
            THEN Outcome(Put(started, key, AdminEntry(line, alt)), TRUE)
            ELSE Outcome(Put(started, key, AdminEntry(line, alt)), FALSE)

\* an all-countries 'line' handler that keeps the first row of a key
AllCountriesLineKeepingFirst(t3, t4, line) ==
    LET featureCode == At(line, 7)
        lineObj == [t |-> "object", asciiName |-> At(line, 2),
                    geoNameId |-> At(line, 0), name |-> At(line, 1),
                    alternateNames |-> JsUndef]
        key == ToStr(At(line, 8)) \o "." \o ToStr(At(line, 10)) \o "." \o
               ToStr(At(line, 11)) \o "." \o ToStr(At(line, 12))
    IN IF featureCode = JsStr("ADM3")
       THEN <<IF key \in DOMAIN t3 THEN t3 ELSE Put(t3, key, lineObj), t4>>
       ELSE IF featureCode = JsStr("ADM4")
            THEN <<t3, Put(t4, key \o "." \o ToStr(At(line, 13)), lineObj)>>
            ELSE <<t3, t4>>

\* _parseGeoNamesAllCountriesCsv, the 'line' handler: the pair of tables
AllCountriesLine(t3, t4, line) ==
    LET featureCode == At(line, 7)
        lineObj == [t |-> "object", asciiName |-> At(line, 2),
                    geoNameId |-> At(line, 0), name |-> At(line, 1),
                    alternateNames |-> JsUndef]
        key == ToStr(At(line, 8)) \o "." \o ToStr(At(line, 10)) \o "." \o
               ToStr(At(line, 11)) \o "." \o ToStr(At(line, 12))
    IN IF featureCode = JsStr("ADM3")
       THEN <<Put(t3, key, lineObj), t4>>
       ELSE IF featureCode = JsStr("ADM4")
            THEN <<t3, Put(t4, key \o "." \o ToStr(At(line, 13)), lineObj)>>
            ELSE <<t3, t4>>

\* the column of a city line, `line[i] || null`
Column(line, i) == OrElse(At(line, i), JsNull)

\* the alternate names of a place without those equal to its primary name
WithoutName(alt, name) ==
    [x \in {y \in DOMAIN alt : JsStr(alt[y]) /= name} |-> alt[x]]

\* _parseGeoNamesCitiesCsv: whether the line has a usable lat/lng pair
HasLatLng(line) ==
    /\ Column(line, 4) /= JsNull /\ ~IsNaN(Column(line, 4))
    /\ Column(line, 5) /= JsNull /\ ~IsNaN(Column(line, 5))

\* _parseGeoNamesCitiesCsv: the record the line becomes
LineObj(line, alt) ==
    LET id == ToStr(Column(line, 0))
        name == Column(line, 1)
    IN [geoNameId |-> Column(line, 0),
        name |-> name,
        latitude |-> Column(line, 4),
        longitude |-> Column(line, 5),
        countryCode |-> Column(line, 8),
        admin1Code |-> Column(line, 10),
        admin2Code |-> Column(line, 11),
        admin3Code |-> Column(line, 12),
        admin4Code |-> Column(line, 13),
        population |-> Column(line, 14),
        alternateNames |-> IF id \in DOMAIN alt THEN WithoutName(alt[id], name)
                           ELSE Column(line, 3),
        countryAltNames |-> JsUndef,
        distance |-> JsUndef]

(***************************************************************************)
(* init: option defaulting and the staged ingestion                        *)
(***************************************************************************)
\* options.load as callers give it: a flag is "true", "false" or "undefined"
LoadInputs ==
    { [admin1 |-> "undefined", admin2 |-> "undefined", admin3And4 |-> "undefined",
       alternateNames |-> "undefined"],
      [admin1 |-> "false", admin2 |-> "undefined", admin3And4 |-> "true",
       alternateNames |-> "undefined"],
      [admin1 |-> "undefined", admin2 |-> "false", admin3And4 |-> "true",
       alternateNames |-> "false"] }

\* if (options.load.x === undefined) options.load.x = d
Defaulted(flag, d) == IF flag = "undefined" THEN d ELSE flag = "true"

LoadOptions(given) ==
    [admin1 |-> Defaulted(given.admin1, TRUE),
     admin2 |-> Defaulted(given.admin2, TRUE),
     admin3And4 |-> Defaulted(given.admin3And4, FALSE),
     alternateNames |-> Defaulted(given.alternateNames, TRUE)]

NoLoad == [admin1 |-> FALSE, admin2 |-> FALSE, admin3And4 |-> FALSE,
           alternateNames |-> FALSE]

At_(stage, step) == [stage |-> stage, step |-> step]

Idle == At_("init", "idle")

Done == At_("init", "done")

Crashed == At_("init", "crashed")

Stages == {"alternateNames", "cities", "countryInfo", "admin1", "admin2", "allCountries"}

FileOf(stage) ==
    CASE stage = "alternateNames" -> AlternateNamesFile
      [] stage = "cities" -> CitiesFile
      [] stage = "countryInfo" -> CountryInfoFile
      [] stage = "admin1" -> Admin1File
      [] stage = "admin2" -> Admin2File
      [] stage = "allCountries" -> AllCountriesFile

\* the dump files of the five-place gazetteer
Dumps == [stage \in Stages |-> FileOf(stage)]

\* the datasets _getGeoDataZipFile fetches; the others come as text files
Zipped == {"alternateNames", "cities", "allCountries"}

\* the task async.series starts next, given the flags
Task(stage, enabled) == IF enabled THEN At_(stage, "fetch") ELSE At_(stage, "skip")

\* where init stands once the parser of `stage` has called back
AfterParse(stage, ld) ==
    CASE stage = "alternateNames" -> At_("cities", "fetch")
      [] stage = "cities" -> At_("countryInfo", "fetch")
      [] stage = "countryInfo" -> Task("admin1", ld.admin1)
      [] stage = "admin1" -> Task("admin2", ld.admin2)
      [] stage = "admin2" -> Task("allCountries", ld.admin3And4)
      [] stage = "allCountries" -> Done

\* where init stands once the fetch of `stage` has reported an error: the
\* waterfall skips its remaining tasks and its final callback drops the error
AfterFetchError(stage, ld) ==
    IF stage = "alternateNames" THEN At_("countryInfo", "fetch")
    ELSE AfterParse(stage, ld)

\* a main callback that keeps the alternate names
AlternateNamesKept(next, alt) == alt

\* the main callback of async.series discards the alternate names
AlternateNamesAt(next, alt) == IF next = Done THEN JsNull ELSE alt

\* init(options, callback) up to the start of the first fetch
InitCall(given) ==
    /\ pc = Idle
    /\ load' = LoadOptions(given)
    /\ pc' = At_("alternateNames", "fetch")
    /\ UNCHANGED <<dump, closed, row, data, tables, kdTree, last>>

\* the tables and the cities array, as one value
Ingested(alt, ci, a1, a2, a3, a4, d) ==
    [alternateNames |-> alt, countryInfo |-> ci, admin1Codes |-> a1,
     admin2Codes |-> a2, admin3Codes |-> a3, admin4Codes |-> a4,
     data |-> d, threw |-> FALSE]

\* what a parser does before it reads its first line: S with its table emptied
StartParser(S, stage) ==
    CASE stage = "alternateNames" -> [S EXCEPT !.alternateNames = EmptyObject]
      [] stage = "cities" -> [S EXCEPT !.data = <<>>]
      [] stage = "countryInfo" -> [S EXCEPT !.countryInfo = EmptyObject]
      [] stage = "admin1" -> [S EXCEPT !.admin1Codes = EmptyObject]
      [] stage = "admin2" -> [S EXCEPT !.admin2Codes = EmptyObject]
      [] stage = "allCountries" -> [S EXCEPT !.admin3Codes = EmptyObject,
                                            !.admin4Codes = EmptyObject]

\* a _getGeoNames...Data call reports the path of its file: the parser starts
FetchOk ==
    /\ pc.step = "fetch"
    /\ pc' = At_(pc.stage, "parse")
    /\ row' = 0
    /\ LET S == Ingested(alternateNames, countryInfo, admin1Codes, admin2Codes,
                         admin3Codes, admin4Codes, data)
           started == StartParser(S, pc.stage)
       IN /\ alternateNames' = started.alternateNames
          /\ countryInfo' = started.countryInfo
          /\ admin1Codes' = started.admin1Codes
          /\ admin2Codes' = started.admin2Codes
          /\ admin3Codes' = started.admin3Codes
          /\ admin4Codes' = started.admin4Codes
          /\ data' = started.data
    /\ UNCHANGED <<dump, closed, load, kdTree, last>>

\* a _getGeoNames...Data call reports a download error
FetchError ==
    /\ pc.step = "fetch"
    /\ pc' = AfterFetchError(pc.stage, load)
    /\ alternateNames' = AlternateNamesAt(pc', alternateNames)
    /\ UNCHANGED <<dump, closed, load, row, data, countryInfo, admin1Codes,
                   admin2Codes, admin3Codes, admin4Codes, kdTree, last>>

\* the download arrives and writing it to the dump directory fails: the text
\* fetch throws inside the request callback; the zip fetch catches the
\* error and hands the parser a file that does not exist
FetchWriteFailure ==
    /\ pc.step = "fetch"
    /\ pc' = Crashed
    /\ \E started \in {IF pc.stage \in Zipped
                       THEN StartParser(Ingested(alternateNames, countryInfo,
                                                 admin1Codes, admin2Codes,
                                                 admin3Codes, admin4Codes, data),
                                        pc.stage)
                       ELSE Ingested(alternateNames, countryInfo, admin1Codes,
                                     admin2Codes, admin3Codes, admin4Codes, data)} :
          /\ alternateNames' = started.alternateNames
          /\ countryInfo' = started.countryInfo
          /\ admin1Codes' = started.admin1Codes
          /\ admin2Codes' = started.admin2Codes
          /\ admin3Codes' = started.admin3Codes
          /\ admin4Codes' = started.admin4Codes
          /\ data' = started.data
    /\ UNCHANGED <<dump, closed, load, row, kdTree, last>>

\* the unzip stream of a zip fetch emits 'error': the handler logs it and
\* the fetch never calls back
FetchUnzipError ==
    /\ pc.step = "fetch"
    /\ pc.stage \in Zipped
    /\ pc' = At_(pc.stage, "hung")
    /\ UNCHANGED <<dump, closed, load, row, data, tables, kdTree, last>>

\* a stage that is switched off: setImmediate(waterfallCallback)
SkipStage ==
    /\ pc.step = "skip"
    /\ pc' = AfterParse(pc.stage, load)
    /\ alternateNames' = AlternateNamesAt(pc', alternateNames)
    /\ UNCHANGED <<dump, closed, load, row, data, countryInfo, admin1Codes,
                   admin2Codes, admin3Codes, admin4Codes, kdTree, last>>

\* S after the 'line' event of the parser of `stage`, and whether it threw
AfterLine(S, stage, line) ==
    CASE stage = "alternateNames" ->
           LET o == AlternateNamesLine(S.alternateNames, line)
           IN [S EXCEPT !.alternateNames = o.table, !.threw = o.threw]
      [] stage = "countryInfo" ->
           LET o == CountryInfoLine(S.countryInfo, S.alternateNames, line)
           IN [S EXCEPT !.countryInfo = o.table, !.threw = o.threw]
      [] stage = "admin1" ->
           LET o == AdminCodesLine(S.admin1Codes, S.alternateNames, line)
           IN [S EXCEPT !.admin1Codes = o.table, !.threw = o.threw]
      [] stage = "admin2" ->
           LET o == AdminCodesLine(S.admin2Codes, S.alternateNames, line)
           IN [S EXCEPT !.admin2Codes = o.table, !.threw = o.threw]
      [] stage = "allCountries" ->
           LET o == AllCountriesLine(S.admin3Codes, S.admin4Codes, line)
           IN [S EXCEPT !.admin3Codes = o[1], !.admin4Codes = o[2]]
      [] stage = "cities" ->
           LET id == ToStr(Column(line, 0))
           IN IF ~HasLatLng(line) THEN S
              ELSE [S EXCEPT
                      !.data = Append(S.data, LineObj(line, S.alternateNames)),
                      !.alternateNames =
                          IF id \in DOMAIN S.alternateNames
                          THEN Put(S.alternateNames, id,
                                   WithoutName(S.alternateNames[id], Column(line, 1)))
                          ELSE S.alternateNames]

\* one 'line' event of the active parser
ParseLine ==
    /\ pc.step = "parse"
    /\ row < Len(dump[pc.stage])
    /\ LET S == Ingested(alternateNames, countryInfo, admin1Codes, admin2Codes,
                         admin3Codes, admin4Codes, data)
           after == AfterLine(S, pc.stage, dump[pc.stage][row + 1])
       IN /\ alternateNames' = after.alternateNames
          /\ countryInfo' = after.countryInfo
          /\ admin1Codes' = after.admin1Codes
          /\ admin2Codes' = after.admin2Codes
          /\ admin3Codes' = after.admin3Codes
          /\ admin4Codes' = after.admin4Codes
          /\ data' = after.data
          /\ pc' = IF after.threw THEN Crashed ELSE pc
    /\ row' = row + 1
    /\ UNCHANGED <<dump, closed, load, kdTree, last>>

\* the 'close' event of the active parser: the cities parser builds the k-d
\* tree, every parser calls back and the next task of the series starts
ParseClose ==
    /\ pc.step = "parse"
    /\ row = Len(dump[pc.stage])
    /\ closed' = closed \cup {pc.stage}
    /\ kdTree' = IF pc.stage = "cities" THEN data ELSE kdTree
    /\ pc' = AfterParse(pc.stage, load)
    /\ alternateNames' = AlternateNamesAt(pc', alternateNames)
    /\ UNCHANGED <<dump, load, row, data, countryInfo, admin1Codes, admin2Codes,
                   admin3Codes, admin4Codes, last>>

(***************************************************************************)
(* A whole init without download errors, as one value                      *)
(***************************************************************************)
RECURSIVE ParseFrom(_, _, _)
ParseFrom(S, stage, i) ==
    IF i > Len(FileOf(stage)) THEN S
    ELSE ParseFrom(AfterLine(S, stage, FileOf(stage)[i]), stage, i + 1)

\* a parser from its start to its 'close' event
ParseFile(S, stage) == ParseFrom(StartParser(S, stage), stage, 1)

Unloaded == Ingested(JsNull, JsNull, JsNull, JsNull, JsNull, JsNull, <<>>)

\* the parsers that have run once init has called back
ParsedStages(ld) ==
    {"alternateNames", "cities", "countryInfo"}
        \cup (IF ld.admin1 THEN {"admin1"} ELSE {})
        \cup (IF ld.admin2 THEN {"admin2"} ELSE {})
        \cup (IF ld.admin3And4 THEN {"allCountries"} ELSE {})

\* the tables and the records of the tree once init has called back
Completed(ld) ==
    With(ParseFile(ParseFile(ParseFile(Unloaded, "alternateNames"), "cities"),
                   "countryInfo"), LAMBDA country :
    With(IF ld.admin1 THEN ParseFile(country, "admin1") ELSE country, LAMBDA a1 :
    With(IF ld.admin2 THEN ParseFile(a1, "admin2") ELSE a1, LAMBDA a2 :
    With(IF ld.admin3And4 THEN ParseFile(a2, "allCountries") ELSE a2, LAMBDA all :
        [all EXCEPT !.alternateNames = JsNull]))))

LoadChoices == {LoadOptions(given) : given \in LoadInputs}

CompletedFor == [ld \in LoadChoices \cup {NoLoad} |-> Completed(ld)]

(***************************************************************************)
(* The k-d tree: great-circle distance and the k nearest records           *)
(***************************************************************************)
\* _distanceFunc on the whole-degree grid 0..2 x 0..2, in whole kilometres:
\* HaversineKm[lat1 + 1][lat2 + 1][|lon2 - lon1| + 1] is R * c of the code
HaversineKm ==
    << << <<0, 111, 222>>, <<111, 157, 249>>, <<222, 249, 314>> >>,
       << <<111, 157, 249>>, <<0, 111, 222>>, <<111, 157, 249>> >>,
       << <<222, 249, 314>>, <<111, 157, 249>>, <<0, 111, 222>> >> >>

_distanceFunc(x, y) ==
    IF NaN \in {x.latitude, x.longitude, y.latitude, y.longitude} THEN NaN
    ELSE HaversineKm[x.latitude + 1][y.latitude + 1][Abs(y.longitude - x.longitude) + 1]

\* the coordinates the tree reads off a record (the strings coerced to numbers)
Coordinates(r) == [latitude |-> ToNumber(r.latitude), longitude |-> ToNumber(r.longitude)]

\* the order in which the tree's heap hands out record i of n
HeapPosition(i, n, reversed) == IF reversed THEN n + 1 - i ELSE i

RECURSIVE Distances(_, _, _)
\* the distance of the point to every record of the tree from the i-th on
Distances(tree, point, i) ==
    IF i > Len(tree) THEN <<>>
    ELSE <<_distanceFunc(point, Coordinates(tree[i]))>> \o Distances(tree, point, i + 1)

\* how many records the tree prefers to record i: the closer ones and, at the
\* same distance, those its heap hands out earlier
Preferred(ds, reversed) ==
    [i \in 1..Len(ds) |->
        Cardinality({j \in 1..Len(ds) :
            \/ ds[j] < ds[i]
            \/ ds[j] = ds[i] /\ HeapPosition(j, Len(ds), reversed)
                                  < HeapPosition(i, Len(ds), reversed)})]

\* the candidates in heap order, each with its distance
Candidates(tree, ds, before, maxNodes, reversed) ==
    SelectSeq([p \in 1..Len(ds) |->
                  LET i == HeapPosition(p, Len(ds), reversed)
                  IN [i |-> i, d |-> ds[i], population |-> tree[i].population,
                      before |-> before[i]]],
              LAMBDA c : c.before < maxNodes)

\* kdTree.nearest(point, maxNodes): the maxNodes records nearest to the point,
\* each with its distance, in heap order and not in order of distance
Nearest(tree, point, maxNodes, reversed) ==
    LET ds == Distances(tree, point, 1)
    IN Candidates(tree, ds, Preferred(ds, reversed), maxNodes, reversed)

(***************************************************************************)
(* _lookUp: re-ranking                                                     *)
(***************************************************************************)
\* a comparator by raw distance alone
CompareByDistance(a, b) == a.d * a.d - b.d * b.d

\* the comparator handed to result.sort; sort takes a NaN for 0
Compare(a, b) ==
    IF NaN \in {a.d, b.d} THEN 0
    ELSE (100 + ToNumber(b.population)) * a.d * a.d
         - (100 + ToNumber(a.population)) * b.d * b.d

RECURSIVE Insert(_, _)
\* stable insertion of c into a sorted sequence
Insert(sorted, c) ==
    IF sorted = <<>> THEN <<c>>
    ELSE LET e == sorted[Len(sorted)]
         IN IF Compare(e, c) > 0
            THEN Append(Insert(SubSeq(sorted, 1, Len(sorted) - 1), c), e)
            ELSE Append(sorted, c)

RECURSIVE SortFrom(_, _, _)
SortFrom(sorted, cands, j) ==
    IF j > Len(cands) THEN sorted
    ELSE SortFrom(Insert(sorted, cands[j]), cands, j + 1)

\* result.sort(...): Array.prototype.sort is stable
Sort(cands) == SortFrom(<<>>, cands, 1)

\* result.slice(0, maxResults)
Slice(result, maxResults) == SubSeq(result, 1, Min(maxResults, Len(result)))

\* a window of one candidate more
MaxNodesWider(maxResults) == maxResults.n + 4

\* maxResults + 3, the number of candidates asked of the tree: + adds to a
\* number and appends the digit to a string, which the tree reads as a number
MaxNodes(maxResults) ==
    IF maxResults.t = "string" THEN 10 * NumericValue[maxResults.s] + 3
    ELSE maxResults.n + 3

(***************************************************************************)
(* _lookUp: enrichment of one result, in place                             *)
(***************************************************************************)
Admin1CodeKey(countryCode, admin1Code) ==
    ToStr(countryCode) \o "." \o ToStr(admin1Code)

Admin2CodeKey(countryCode, admin1Code, admin2Code) ==
    ToStr(countryCode) \o "." \o ToStr(admin1Code) \o "." \o ToStr(admin2Code)

Admin3CodeKey(countryCode, admin1Code, admin2Code, admin3Code) ==
    Admin2CodeKey(countryCode, admin1Code, admin2Code) \o "." \o ToStr(admin3Code)

Admin4CodeKey(countryCode, admin1Code, admin2Code, admin3Code, admin4Code) ==
    Admin3CodeKey(countryCode, admin1Code, admin2Code, admin3Code)
        \o "." \o ToStr(admin4Code)

\* the local variable adminNCode: assigned only when the table is loaded
AdminCodeVar(table, field) == IF table /= JsNull THEN OrElse(field, JsStr("")) ELSE JsUndef

\* result[j][0].adminNCode = table[key] || result[j][0].adminNCode
Resolved(table, key, field) ==
    IF table /= JsNull THEN OrElse(Get(table, key), field) ELSE field

\* the tables a lookUp reads
Gazetteer(ci, a1, a2, a3, a4) ==
    [countryInfo |-> ci, admin1Codes |-> a1, admin2Codes |-> a2,
     admin3Codes |-> a3, admin4Codes |-> a4]

Current == Gazetteer(countryInfo, admin1Codes, admin2Codes, admin3Codes, admin4Codes)

\* the body of the loop over j: the record after it, the keys it used and
\* whether it threw (that._countryInfo is null)
Enrich(r, d, T) ==
    LET countryCode == OrElse(r.countryCode, JsStr(""))
        admin1Code == AdminCodeVar(T.admin1Codes, r.admin1Code)
        admin2Code == AdminCodeVar(T.admin2Codes, r.admin2Code)
        admin3Code == AdminCodeVar(T.admin3Codes, r.admin3Code)
        admin4Code == AdminCodeVar(T.admin4Codes, r.admin4Code)
        k1 == Admin1CodeKey(countryCode, admin1Code)
        k2 == Admin2CodeKey(countryCode, admin1Code, admin2Code)
        k3 == Admin3CodeKey(countryCode, admin1Code, admin2Code, admin3Code)
        k4 == Admin4CodeKey(countryCode, admin1Code, admin2Code, admin3Code, admin4Code)
        coded == [r EXCEPT !.admin1Code = Resolved(T.admin1Codes, k1, r.admin1Code),
                           !.admin2Code = Resolved(T.admin2Codes, k2, r.admin2Code),
                           !.admin3Code = Resolved(T.admin3Codes, k3, r.admin3Code),
                           !.admin4Code = Resolved(T.admin4Codes, k4, r.admin4Code)]
        cc == ToStr(countryCode)
    IN [keys |-> <<k1, k2, k3, k4>>,
        raw |-> <<r.countryCode, r.admin1Code, r.admin2Code, r.admin3Code, r.admin4Code>>,
        threw |-> T.countryInfo = JsNull,
        rec |-> IF T.countryInfo = JsNull THEN coded
                ELSE [coded EXCEPT
                        !.countryAltNames = IF cc \in DOMAIN T.countryInfo
                                            THEN T.countryInfo[cc].alternateNames
                                            ELSE coded.countryAltNames,
                        !.distance = JsNum(d)]]

RECURSIVE EnrichFrom(_, _, _, _, _)
\* for (j = 0; j < result.length; j += 1): the tree's records after the loop,
\* the notes of every round, and whether a round threw
EnrichFrom(tree, result, j, T, notes) ==
    IF j > Len(result) THEN [tree |-> tree, notes |-> notes, threw |-> FALSE]
    ELSE With(Enrich(tree[result[j].i], result[j].d, T), LAMBDA e :
           LET after == [tree EXCEPT ![result[j].i] = e.rec]
               noted == Append(notes, [i |-> result[j].i, keys |-> e.keys,
                                       raw |-> e.raw])
           IN IF e.threw THEN [tree |-> after, notes |-> noted, threw |-> TRUE]
              ELSE EnrichFrom(after, result, j + 1, T, noted))

\* functions[i]: one point of the batch
Task_(tree, point, maxResults, reversed, T) ==
    With(Nearest(tree, point, MaxNodes(maxResults), reversed), LAMBDA cands :
    With(Slice(Sort(cands), ToNumber(maxResults)), LAMBDA result :
    With(EnrichFrom(tree, result, 1, T, <<>>), LAMBDA done :
        [tree |-> done.tree, threw |-> done.threw, notes |-> done.notes,
         cands |-> cands, result |-> [j \in 1..Len(result) |-> result[j].i],
         asked |-> MaxNodes(maxResults)])))

\* point = {latitude: parseFloat(point.latitude), longitude: parseFloat(...)}
ParsedPoint(point) ==
    [latitude |-> ParseFloat(point.latitude), longitude |-> ParseFloat(point.longitude)]

RECURSIVE Series(_, _, _, _, _, _, _)
\* async.series(functions, ...): the tasks run in order; one that throws ends it
Series(tree, points, i, maxResults, reversed, T, out) ==
    IF i > Len(points) THEN [tree |-> tree, threw |-> FALSE, tasks |-> out]
    ELSE With(Task_(tree, ParsedPoint(points[i]), maxResults, reversed, T), LAMBDA t :
           LET noted == Append(out, [notes |-> t.notes, cands |-> t.cands,
                                     result |-> t.result, asked |-> t.asked])
           IN IF t.threw THEN [tree |-> t.tree, threw |-> TRUE, tasks |-> noted]
              ELSE Series(t.tree, points, i + 1, maxResults, reversed, T, noted))

\* what the callback is handed: the lists hold the tree's own records
Delivered(tree, tasks) ==
    [i \in 1..Len(tasks) |-> [j \in 1..Len(tasks[i].result) |-> tree[tasks[i].result[j]]]]

\* a lookUp that has lost its guard
NotInitializedNever(tree) == FALSE

\* if (!this._kdTree)
NotInitialized(tree) == tree = JsNull

Unread == Gazetteer(JsNull, JsNull, JsNull, JsNull, JsNull)

NoCall ==
    [called |-> FALSE, points |-> <<>>, single |-> FALSE, maxResults |-> 0,
     reversed |-> FALSE, at |-> Idle, treeWasNull |-> TRUE, read |-> Unread,
     callbacks |-> 0, err |-> JsUndef, results |-> JsUndef, threw |-> FALSE,
     tasks |-> <<>>]

\* if (!Array.isArray(points)) points = [points]
AsArray(points, single) == IF single THEN <<points>> ELSE points

\* _lookUp from its first line to its return: the records of the tree after
\* it, and what it did and delivered
Outcome_(tree, T, at, given, single, maxResults, reversed) ==
    With(AsArray(given, single), LAMBDA points :
    With([NoCall EXCEPT !.called = TRUE, !.points = points,
                        !.single = single, !.maxResults = ToNumber(maxResults),
                        !.reversed = reversed, !.at = at,
                        !.treeWasNull = (tree = JsNull), !.read = T], LAMBDA call :
        IF NotInitialized(tree)
        THEN [tree |-> tree,
              last |-> [call EXCEPT !.callbacks = 1, !.err = JsStr("{}"),
                                    !.results = JsNull]]
        ELSE IF tree = JsNull
        THEN [tree |-> tree, last |-> [call EXCEPT !.threw = TRUE]]
        ELSE With(Series(tree, points, 1, maxResults, reversed, T, <<>>), LAMBDA run :
               IF run.threw
               THEN [tree |-> run.tree,
                     last |-> [call EXCEPT !.threw = TRUE, !.tasks = run.tasks]]
               ELSE [tree |-> run.tree,
                     last |-> [call EXCEPT !.callbacks = 1, !.err = JsNull,
                                  !.results = Delivered(run.tree, run.tasks),
                                  !.tasks = run.tasks]])))

\* lookUp(points, maxResults, callback); `single` says that points is one
\* point and not an array, `reversed` which heap order the tree answers in
LookUp(points, single, maxResults, reversed) ==
    /\ pc /= Crashed
    /\ \E o \in {Outcome_(kdTree, Current, pc, points, single, maxResults, reversed)} :
          /\ kdTree' = o.tree
          /\ last' = o.last
    /\ UNCHANGED <<pc, dump, closed, load, row, data, tables>>

(***************************************************************************)
(* The process: init running while lookUp calls arrive                     *)
(***************************************************************************)
QueryPoint(lat, lon) == [latitude |-> JsNum(lat), longitude |-> JsNum(lon)]

QueryPoints == {QueryPoint(0, 0), QueryPoint(0, 1)}

\* the largest maxResults a call asks for
MaxResults == 2

\* the largest number of points in one call
MaxBatch == 2

Batches == UNION {[1..n -> QueryPoints] : n \in 0..MaxBatch}

\* the point the calls made while init runs ask about
PointDuringInit == QueryPoint(0, 0)

Init ==
    /\ pc = Idle
    /\ dump = Dumps
    /\ closed = {}
    /\ load = NoLoad
    /\ row = 0
    /\ data = <<>>
    /\ alternateNames = JsNull
    /\ countryInfo = JsNull
    /\ admin1Codes = JsNull
    /\ admin2Codes = JsNull
    /\ admin3Codes = JsNull
    /\ admin4Codes = JsNull
    /\ kdTree = JsNull
    /\ last = NoCall

Next ==
    \/ \E given \in LoadInputs : InitCall(given)
    \/ FetchOk
    \/ FetchError
    \/ FetchWriteFailure
    \/ FetchUnzipError
    \/ SkipStage
    \/ ParseLine
    \/ ParseClose
    \/ \E k \in 1..MaxResults : LookUp(<<PointDuringInit>>, FALSE, JsNum(k), FALSE)
    \/ \E k \in 1..MaxResults : LookUp(PointDuringInit, TRUE, JsNum(k), FALSE)

Spec == Init /\ [][Next]_vars

(***************************************************************************)
(* The query phase alone: init has called back, every download worked      *)
(***************************************************************************)
QueryInit ==
    /\ pc = Done
    /\ dump = Dumps
    /\ load \in LoadChoices
    /\ closed = ParsedStages(load)
    /\ row = Len(FileOf(IF load.admin3And4 THEN "allCountries"
                        ELSE IF load.admin2 THEN "admin2" ELSE "admin1"))
    /\ \E c \in {CompletedFor[load]} :
          /\ data = c.data
          /\ alternateNames = c.alternateNames
          /\ countryInfo = c.countryInfo
          /\ admin1Codes = c.admin1Codes
          /\ admin2Codes = c.admin2Codes
          /\ admin3Codes = c.admin3Codes
          /\ admin4Codes = c.admin4Codes
          /\ kdTree = c.data
    /\ last = NoCall

QueryNext ==
    \/ \E points \in Batches, k \in 1..MaxResults, reversed \in BOOLEAN :
          LookUp(points, FALSE, JsNum(k), reversed)
    \/ \E p \in QueryPoints, k \in 1..MaxResults, reversed \in BOOLEAN :
          LookUp(p, TRUE, JsNum(k), reversed)

SpecQuery == QueryInit /\ [][QueryNext]_vars

\* a complete init leaves exactly the state the query phase starts from
CompletedIsReached ==
    (pc = Done /\ last = NoCall /\ kdTree /= JsNull /\ countryInfo /= JsNull
        /\ (load.admin1 => admin1Codes /= JsNull)
        /\ (load.admin2 => admin2Codes /= JsNull)
        /\ (load.admin3And4 => admin3Codes /= JsNull))
    => With(CompletedFor[load], LAMBDA c :
          /\ closed = ParsedStages(load)
          /\ kdTree = c.data
          /\ Current = Gazetteer(c.countryInfo, c.admin1Codes, c.admin2Codes,
                                 c.admin3Codes, c.admin4Codes))

(***************************************************************************)
(* Vocabulary of the properties                                            *)
(***************************************************************************)
\* the last call handed its callback the 'not initialized' error and no list
SignalledNotInitialized ==
    last.callbacks = 1 /\ last.err = JsStr("{}") /\ last.results = JsNull

\* the last call handed its callback result lists
DeliveredLists == last.called /\ last.callbacks = 1 /\ last.err = JsNull

\* the place records as the cities parser made them, before any lookUp
OriginalRecords == CompletedFor[NoLoad].data

\* what the last call delivers on a fresh process whose init has completed
FreshResults ==
    With(CompletedFor[load], LAMBDA c :
    With(Series(c.data, last.points, 1, JsNum(last.maxResults), last.reversed,
                Gazetteer(c.countryInfo, c.admin1Codes, c.admin2Codes,
                          c.admin3Codes, c.admin4Codes), <<>>), LAMBDA run :
        Delivered(run.tree, run.tasks)))

\* the ids of the places computed for a point: nearest, re-ranked, truncated
ComputedIds(point) ==
    With(OriginalRecords, LAMBDA records :
    With(Slice(Sort(Nearest(records, ParsedPoint(point), last.maxResults + 3,
                            last.reversed)),
               last.maxResults), LAMBDA c :
        [j \in 1..Len(c) |-> records[c[j].i].geoNameId]))

Ids(list) == [j \in 1..Len(list) |-> list[j].geoNameId]

\* the position of record i in a result list, 0 when it is not in it
Position(result, i) ==
    IF \E j \in 1..Len(result) : result[j] = i
    THEN CHOOSE j \in 1..Len(result) : result[j] = i ELSE 0

\* candidate a is placed before candidate b in the result list
PlacedFirst(result, a, b) ==
    Position(result, b.i) > 0 =>
        (Position(result, a.i) > 0 /\ Position(result, a.i) < Position(result, b.i))

\* the raw code string of a place, as key segment
Segment(code) == ToStr(OrElse(code, JsStr("")))

HierarchicalKey(o, level) ==
    CASE level = 1 -> Segment(o.countryCode) \o "." \o Segment(o.admin1Code)
      [] level = 2 -> Segment(o.countryCode) \o "." \o Segment(o.admin1Code)
                        \o "." \o Segment(o.admin2Code)
      [] level = 3 -> Segment(o.countryCode) \o "." \o Segment(o.admin1Code)
                        \o "." \o Segment(o.admin2Code) \o "." \o Segment(o.admin3Code)
      [] level = 4 -> Segment(o.countryCode) \o "." \o Segment(o.admin1Code)
                        \o "." \o Segment(o.admin2Code) \o "." \o Segment(o.admin3Code)
                        \o "." \o Segment(o.admin4Code)

AdminTable(T, level) ==
    CASE level = 1 -> T.admin1Codes
      [] level = 2 -> T.admin2Codes
      [] level = 3 -> T.admin3Codes
      [] level = 4 -> T.admin4Codes

AdminCode(r, level) ==
    CASE level = 1 -> r.admin1Code
      [] level = 2 -> r.admin2Code
      [] level = 3 -> r.admin3Code
      [] level = 4 -> r.admin4Code

(***************************************************************************)
(* Properties                                                              *)
(***************************************************************************)
\* C1: whenever lookUp is called while _kdTree is null, the callback is
\* invoked exactly once with a non-empty error value and a null result list,
\* the index is not queried, and the call leaves init where it stands.
C1_NotInitializedBailsOut ==
    /\ [](last.called /\ last.treeWasNull =>
            /\ last.callbacks = 1
            /\ last.err.t = "string" /\ last.err.s /= ""
            /\ last.results = JsNull
            /\ last.tasks = <<>>
            /\ ~last.threw)
    /\ [][(kdTree = JsNull /\ last' /= last) =>
            (pc' = pc /\ load' = load /\ row' = row /\ kdTree' = JsNull)]_vars

C1_Witness ==
    /\ last.called /\ last.treeWasNull /\ last.at = At_("cities", "parse")
    /\ SignalledNotInitialized

\* C2: a lookUp call issued before init has invoked its completion callback
\* delivers the 'not initialized' signal and no result list.
C2_NotInitializedBeforeInitCallsBack ==
    (last.called /\ last.at /= Done) => SignalledNotInitialized

\* C3: every lookUp that delivers result lists, whatever stage init is in,
\* delivers the lists the same call delivers on a fresh process after init
\* has completed: none is enriched against partially built tables.
C3_NoPartiallyBuiltState ==
    DeliveredLists => last.results = FreshResults

\* C4: on a built index the callback receives one result list per input
\* point, the i-th being the list computed for the i-th point; a single
\* point counts as a batch of one.
C4_BatchOrder ==
    (last.called /\ ~last.treeWasNull) =>
        /\ DeliveredLists
        /\ Len(last.results) = Len(last.points)
        /\ last.single => Len(last.results) = 1
        /\ \A i \in 1..Len(last.points) :
              Ids(last.results[i]) = ComputedIds(last.points[i])

\* C5: in the lists one call delivers, the distance of every result of the
\* i-th list is the great-circle distance between the i-th point and the place.
C5_PerPointDistance ==
    DeliveredLists =>
        \A i \in 1..Len(last.results) : \A j \in 1..Len(last.results[i]) :
            last.results[i][j].distance =
                JsNum(_distanceFunc(ParsedPoint(last.points[i]), Coordinates(last.results[i][j])))

\* C6: on an index of N >= 1 records the result list of a one-point call
\* has exactly min(maxResults, N) entries, each with a distance >= 0.
C6_ResultCount ==
    (last.called /\ ~last.treeWasNull /\ Len(last.points) = 1 /\ Len(kdTree) >= 1) =>
        /\ DeliveredLists
        /\ Len(last.results[1]) = Min(last.maxResults, Len(kdTree))
        /\ Len(last.results[1]) <= last.maxResults
        /\ last.maxResults = 1 => Len(last.results[1]) = 1
        /\ \A j \in 1..Len(last.results[1]) :
              /\ last.results[1][j].distance.t = "number"
              /\ last.results[1][j].distance.n >= 0

\* C7: consecutive entries A, B of every delivered result list satisfy
\* (100 + population(B)) * distance(A)^2 <= (100 + population(A)) * distance(B)^2.
C7_WeightedOrder ==
    DeliveredLists =>
        \A i \in 1..Len(last.results) : \A j \in 1..(Len(last.results[i]) - 1) :
            LET A == last.results[i][j]
                B == last.results[i][j + 1]
            IN (100 + ToNumber(B.population)) * A.distance.n * A.distance.n
                 <= (100 + ToNumber(A.population)) * B.distance.n * B.distance.n

\* a candidate without population ranks exactly as one with population 0 at
\* the same distance
AbsentRanksAsZero(cands) ==
    \A x \in 1..Len(cands), y \in 1..Len(cands) :
        (cands[x].population = JsNull /\ cands[y].population = JsStr("0")
            /\ cands[x].d = cands[y].d) =>
        /\ Compare(cands[x], cands[y]) = 0
        /\ Compare(cands[y], cands[x]) = 0
        /\ \A z \in 1..Len(cands) :
              /\ Compare(cands[x], cands[z]) = Compare(cands[y], cands[z])
              /\ Compare(cands[z], cands[x]) = Compare(cands[z], cands[y])

\* C8 as stated: of two candidates at equal raw distance (distance 0
\* included) the more populous one is placed first; absent population ranks
\* as population 0.
C8_WeightingBoundary ==
    last.called =>
        \A t \in 1..Len(last.tasks) :
            /\ \A x \in 1..Len(last.tasks[t].cands), y \in 1..Len(last.tasks[t].cands) :
                  LET a == last.tasks[t].cands[x]
                      b == last.tasks[t].cands[y]
                  IN (a.d = b.d /\ ToNumber(a.population) > ToNumber(b.population))
                        => PlacedFirst(last.tasks[t].result, a, b)
            /\ AbsentRanksAsZero(last.tasks[t].cands)

\* C8 (amended): of two candidates at the same raw distance greater than 0
\* the more populous one is placed first; at distance 0 the comparator ties
\* them; absent population ranks as population 0.
C8_WeightingBoundaryAboveZero ==
    last.called =>
        \A t \in 1..Len(last.tasks) :
            /\ \A x \in 1..Len(last.tasks[t].cands), y \in 1..Len(last.tasks[t].cands) :
                  LET a == last.tasks[t].cands[x]
                      b == last.tasks[t].cands[y]
                  IN /\ (a.d = b.d /\ a.d > 0
                            /\ ToNumber(a.population) > ToNumber(b.population))
                        => PlacedFirst(last.tasks[t].result, a, b)
                     /\ (a.d = 0 /\ b.d = 0) => Compare(a, b) = 0
            /\ AbsentRanksAsZero(last.tasks[t].cands)

C8_Witness ==
    /\ last.called
    /\ \E t \in 1..Len(last.tasks) :
          /\ \E x \in 1..Len(last.tasks[t].cands), y \in 1..Len(last.tasks[t].cands) :
                LET a == last.tasks[t].cands[x]
                    b == last.tasks[t].cands[y]
                IN /\ a.d = b.d /\ a.d > 0
                   /\ ToNumber(a.population) > ToNumber(b.population)
                   /\ Position(last.tasks[t].result, b.i) > 0
                   /\ Position(last.tasks[t].result, a.i) > 0
          /\ \E x \in 1..Len(last.tasks[t].cands), y \in 1..Len(last.tasks[t].cands) :
                /\ last.tasks[t].cands[x].population = JsNull
                /\ last.tasks[t].cands[y].population = JsStr("0")
                /\ last.tasks[t].cands[x].d = last.tasks[t].cands[y].d

\* C9: for every delivered place and every admin level whose table is
\* loaded, the code is the table's entry when the place's hierarchical key
\* has one, and the unchanged raw code when it has none.
C9_AdminCodeResolution ==
    DeliveredLists =>
        \A i \in 1..Len(last.results) : \A j \in 1..Len(last.results[i]) :
            \A level \in 1..4 :
                LET o == OriginalRecords[last.tasks[i].result[j]]
                    table == AdminTable(last.read, level)
                    key == HierarchicalKey(o, level)
                IN table /= JsNull =>
                     AdminCode(last.results[i][j], level) =
                        IF key \in DOMAIN table THEN table[key] ELSE AdminCode(o, level)

\* C10: whenever the admin2 table is loaded, admin2 is looked up under
\* countryCode.admin1Code.admin2Code built from the raw codes of the place,
\* and admin3 and admin4 under that key extended by one raw segment each.
C10_AdminKeyConstruction ==
    last.called =>
        \A t \in 1..Len(last.tasks) : \A e \in 1..Len(last.tasks[t].notes) :
            LET note == last.tasks[t].notes[e]
                o == OriginalRecords[note.i]
            IN \A level \in 2..4 :
                  AdminTable(last.read, level) /= JsNull =>
                      note.keys[level] = HierarchicalKey(o, level)

\* the flag of options.load that switches the dataset of a stage
FlagOf(stage, ld) ==
    CASE stage = "alternateNames" -> ld.alternateNames
      [] stage = "admin1" -> ld.admin1
      [] stage = "admin2" -> ld.admin2
      [] stage = "allCountries" -> ld.admin3And4
      [] OTHER -> TRUE

\* the order of the stages of one init
StageOrder == <<"alternateNames", "cities", "countryInfo", "admin1", "admin2",
                "allCountries">>

\* the stages that come before a stage
Before(stage) ==
    {StageOrder[i] : i \in {j \in 1..Len(StageOrder) :
                               \E k \in (j + 1)..Len(StageOrder) : StageOrder[k] = stage}}

\* C11: without options the flags default to admin1 = true, admin2 = true,
\* admin3And4 = false, alternateNames = true, and the dataset of a flag is
\* fetched and parsed when the flag is true and skipped when it is false.
C11_LoadOptions ==
    /\ LoadOptions([admin1 |-> "undefined", admin2 |-> "undefined",
                    admin3And4 |-> "undefined", alternateNames |-> "undefined"])
         = [admin1 |-> TRUE, admin2 |-> TRUE, admin3And4 |-> FALSE,
            alternateNames |-> TRUE]
    /\ pc.step \in {"fetch", "parse", "hung"} => FlagOf(pc.stage, load)
    /\ pc.step = "skip" => ~FlagOf(pc.stage, load)

\* C12: a parser other than the alternate-names parser processes a row only
\* after the alternate-names parser has emitted 'close', and every parser
\* processes its rows only while no parser of its own or a later stage has
\* closed (order: alternate names, cities, country info, admin1, admin2,
\* all-countries).
C12_IngestionOrdering ==
    [][row' = row + 1 =>
          /\ pc.stage /= "alternateNames" => "alternateNames" \in closed
          /\ closed \subseteq Before(pc.stage)]_vars

\* C13: whenever init has invoked its completion callback the index is
\* built, every enabled parser has run and the tables hold the rows of
\* their datasets.
C13_FetchErrorsAreFatal ==
    pc = Done =>
        /\ kdTree /= JsNull
        /\ closed = ParsedStages(load)
        /\ With(CompletedFor[load], LAMBDA c :
              Current = Gazetteer(c.countryInfo, c.admin1Codes, c.admin2Codes,
                                  c.admin3Codes, c.admin4Codes))

\* C14: no lookUp call throws past its caller, in whatever state it is made.
C14_LookUpNeverThrows ==
    last.called => ~last.threw


(***************************************************************************)
(* init alone, every pending I/O event eventually delivered                *)
(***************************************************************************)
\* the events of a running init: a fetch ending one way or another, a stage
\* passed over, a row handed to the parser, the parser's stream closing
InitStep ==
    \/ FetchOk
    \/ FetchError
    \/ FetchWriteFailure
    \/ FetchUnzipError
    \/ SkipStage
    \/ ParseLine
    \/ ParseClose

InitNext ==
    \/ \E given \in LoadInputs : InitCall(given)
    \/ InitStep

SpecLive == Init /\ [][InitNext]_vars /\ WF_vars(InitStep)

\* C19: every init call eventually invokes its completion callback or raises
\* an error, whatever the outcome of each dataset's fetch, when every pending
\* I/O event is eventually delivered
C19_InitTerminates == (pc /= Idle) ~> (pc = Done \/ pc = Crashed)

\* C20: after init has completed no lookUp changes a record of the index nor
\* an entry of the country and admin tables: they stay as init left them
C20_QueryPathReadOnly ==
    pc = Done =>
        With(CompletedFor[load], LAMBDA c :
            /\ kdTree = c.data
            /\ Current = Gazetteer(c.countryInfo, c.admin1Codes, c.admin2Codes,
                                   c.admin3Codes, c.admin4Codes))

(***************************************************************************)
(* The query phase with points whose coordinates are not numbers           *)
(***************************************************************************)
\* a point given with a latitude that is no number
BadLatitude == [latitude |-> JsStr("abc"), longitude |-> JsNum(0)]

\* a point given without longitude
NoLongitude == [latitude |-> JsNum(0), longitude |-> JsUndef]

\* a point given with its coordinates as decimal strings
Decimal == [latitude |-> JsStr("0"), longitude |-> JsStr("1")]

GivenPoints == {Decimal, BadLatitude, NoLongitude}

GivenBatches == [1..MaxBatch -> GivenPoints]

GivenNext ==
    \E points \in GivenBatches, k \in 1..MaxResults :
        LookUp(points, FALSE, JsNum(k), FALSE)

SpecGiven == QueryInit /\ [][GivenNext]_vars

\* a coordinate that is a number or the decimal string of one
Numeric(v) == v.t = "number" \/ (v.t = "string" /\ v.s \in DOMAIN NumericValue)

\* the points of the last call whose latitude or longitude is not numeric
BadPoints ==
    {i \in 1..Len(last.points) :
        ~(Numeric(last.points[i].latitude) /\ Numeric(last.points[i].longitude))}

\* C15: in a batch lookUp on a built index a point whose latitude or
\* longitude is not numeric is rejected before the index is queried for it,
\* its slot of the result holds no places, and every other point of the
\* batch gets its normal list
C15_BadPointHandling ==
    (last.called /\ ~last.treeWasNull) =>
        /\ DeliveredLists
        /\ Len(last.results) = Len(last.points)
        /\ \A i \in 1..Len(last.points) :
              IF i \in BadPoints
              THEN last.tasks[i].asked = 0 /\ last.results[i] = <<>>
              ELSE Ids(last.results[i]) = ComputedIds(last.points[i])

(***************************************************************************)
(* One parser run over every short file of rows                            *)
(***************************************************************************)
\* the largest number of rows of a file
MaxRows == 3

\* the files of at most MaxRows rows over a set of rows
Files(rows) == UNION {[1..n -> rows] : n \in 0..MaxRows}

RECURSIVE IngestedBefore(_, _, _, _)
\* the tables and the cities array once the parsers before `stage` have run
\* over the dump files of the gazetteer
IngestedBefore(S, i, stage, ld) ==
    IF StageOrder[i] = stage THEN S
    ELSE IngestedBefore(IF StageOrder[i] \in ParsedStages(ld)
                        THEN ParseFile(S, StageOrder[i]) ELSE S, i + 1, stage, ld)

\* the row counter the parsers before `stage` leave behind
RowBefore(stage, ld) ==
    With({i \in 1..Len(StageOrder) :
             StageOrder[i] \in Before(stage) \cap ParsedStages(ld)}, LAMBDA ran :
        IF ran = {} THEN 0
        ELSE Len(FileOf(StageOrder[CHOOSE i \in ran : \A j \in ran : j <= i])))

\* init stands at the fetch of `stage`, whose dump file is one of `files`
AtFetchOf(stage, ld, files) ==
    /\ pc = At_(stage, "fetch")
    /\ load = ld
    /\ closed = Before(stage) \cap ParsedStages(ld)
    /\ row = RowBefore(stage, ld)
    /\ dump \in {[Dumps EXCEPT ![stage] = file] : file \in files}
    /\ \E S \in {IngestedBefore(Unloaded, 1, stage, ld)} :
          /\ data = S.data
          /\ alternateNames = S.alternateNames
          /\ countryInfo = S.countryInfo
          /\ admin1Codes = S.admin1Codes
          /\ admin2Codes = S.admin2Codes
          /\ admin3Codes = S.admin3Codes
          /\ admin4Codes = S.admin4Codes
          /\ kdTree = IF "cities" \in Before(stage) THEN S.data ELSE JsNull
    /\ last = NoCall

\* init(): every flag at its default
DefaultLoad ==
    LoadOptions([admin1 |-> "undefined", admin2 |-> "undefined",
                 admin3And4 |-> "undefined", alternateNames |-> "undefined"])

\* a row of the alternate-names dump
AlternateNameLine(id, geoNameId, isoLanguage, altName, isPreferredName) ==
    <<id, geoNameId, isoLanguage, altName, isPreferredName, "", "", "">>

AlternateNameRows ==
    { AlternateNameLine("21", "1", "en", "A", ""),
      AlternateNameLine("22", "1", "en", "B", "1"),
      AlternateNameLine("23", "1", "en", "C", "1"),
      AlternateNameLine("24", "1", "en", "", ""),
      AlternateNameLine("25", "1", "link", "http://a", ""),
      AlternateNameLine("26", "1", "", "Z", "1"),
      AlternateNameLine("27", "2", "fr", "D", "") }

AlternateNamesInit == AtFetchOf("alternateNames", DefaultLoad, Files(AlternateNameRows))

AlternateNamesNext ==
    \/ pc.stage = "alternateNames" /\ FetchOk
    \/ pc.stage = "alternateNames" /\ ParseLine
    \/ pc.stage = "alternateNames" /\ ParseClose

SpecAlternateNames == AlternateNamesInit /\ [][AlternateNamesNext]_vars

\* the rows of a file that carry a language: not empty and not 'link'
WithLanguage(file) == {i \in 1..Len(file) : file[i][3] \notin {"", "link"}}

\* the rows of a file for one place and one language
RowsOfPair(file, geoNameId, isoLanguage) ==
    {i \in WithLanguage(file) : file[i][2] = geoNameId /\ file[i][3] = isoLanguage}

\* the name to keep for a pair: that of the last row marked preferred if
\* there is one, else that of the first row
KeptName(file, pair) ==
    With({i \in pair : file[i][5] = "1"}, LAMBDA preferred :
        IF preferred /= {}
        THEN file[CHOOSE i \in preferred : \A j \in preferred : j <= i][4]
        ELSE file[CHOOSE i \in pair : \A j \in pair : i <= j][4])

\* the table the rule of the rows makes of a file
KeptNames(file) ==
    [geoNameId \in {file[i][2] : i \in WithLanguage(file)} |->
        [isoLanguage \in {file[i][3] : i \in {j \in WithLanguage(file) :
                                                 file[j][2] = geoNameId}} |->
            KeptName(file, RowsOfPair(file, geoNameId, isoLanguage))]]

\* C16: once the alternate-names parser has closed, the table holds for each
\* place and each language that is neither empty nor 'link' one name: that of
\* the last row marked preferred if a row of the pair is, else that of the
\* first row; rows with an empty or 'link' language add no entry
C16_AlternateNameTable ==
    "alternateNames" \in closed => alternateNames = KeptNames(dump["alternateNames"])

\* rows of the cities dump: two with coordinates, and rows without latitude,
\* with a longitude that is a word, with a latitude of white space, with two
\* fields only, and an empty line
CityRows ==
    { CityLine("6", "Port", "1", "1", "ES", "09", "", "", "", "10"),
      CityLine("7", "Cove", "2", "0", "ES", "09", "", "", "", "10"),
      CityLine("8", "NoLatitude", "", "1", "ES", "09", "", "", "", "10"),
      CityLine("9", "WordLongitude", "1", "abc", "ES", "09", "", "", "", "10"),
      CityLine("10", "BlankLatitude", " ", "1", "ES", "09", "", "", "", "10"),
      <<"11", "Short">>,
      <<"">> }

CitiesInit == AtFetchOf("cities", DefaultLoad, Files(CityRows))

CitiesNext ==
    \/ pc.stage = "cities" /\ FetchOk
    \/ pc.stage = "cities" /\ ParseLine
    \/ pc.stage = "cities" /\ ParseClose

SpecCities == CitiesInit /\ [][CitiesNext]_vars

\* a field of a row that is present and is a decimal number
DecimalField(line, i) == i <= Len(line) /\ line[i] \in DOMAIN NumericValue

\* the rows of a file with both latitude and longitude present and numeric
WithCoordinates(file) ==
    SelectSeq(file, LAMBDA line : DecimalField(line, 5) /\ DecimalField(line, 6))

\* C18: a row of the city stream becomes a record of the set handed to index
\* construction exactly when its latitude and its longitude are present and
\* numeric; the other rows are dropped without error, and the records are
\* handed over in input order
C18_CityRows ==
    /\ pc /= Crashed
    /\ "cities" \in closed =>
          With(WithCoordinates(dump["cities"]), LAMBDA kept :
              Ids(kdTree) = [j \in 1..Len(kept) |-> JsStr(kept[j][1])])

\* rows of the admin1 codes dump: two with the four columns, one with two
\* columns, one with five, and an empty line
Admin1Rows ==
    { <<"ES.77", "Aragon", "Aragon", "400">>,
      <<"FR.11", "Ile-de-France", "Ile-de-France", "500">>,
      <<"ES.60", "Valencia">>,
      <<"ES.34", "Asturias", "Asturias", "600", "extra">>,
      <<"">> }

Admin1Init == AtFetchOf("admin1", DefaultLoad, Files(Admin1Rows))

Admin1Next ==
    \/ pc.stage = "admin1" /\ FetchOk
    \/ pc.stage = "admin1" /\ ParseLine
    \/ pc.stage = "admin1" /\ ParseClose

SpecAdmin1 == Admin1Init /\ [][Admin1Next]_vars

\* the keys of the rows of an admin codes file that have the four columns
WellFormedKeys(file) ==
    {file[i][1] : i \in {j \in 1..Len(file) :
                            Len(file[j]) = Len(GEONAMES_ADMIN_CODES_COLUMNS)}}

\* C17: a row that is empty or has the wrong number of fields never aborts a
\* stage: it is dropped without adding an entry, no error is raised, and the
\* rows after it are still parsed (here: the admin1 parser)
C17_MalformedRowsAreDropped ==
    /\ pc /= Crashed
    /\ "admin1" \in closed => DOMAIN admin1Codes = WellFormedKeys(dump["admin1"])

\* C21: for a built gazetteer the lists a lookUp delivers are those a fresh
\* process delivers for the same points and maxResults, whatever lookUp calls
\* were made before it, the calls made while init was running included
C21_HistoryIndependence ==
    (DeliveredLists /\ last.at = Done /\ closed = ParsedStages(load)) =>
        last.results = FreshResults

(***************************************************************************)
(* The HTTP handler in front of lookUp                                     *)
(***************************************************************************)
\* the values of a query parameter: absent, or a string
QueryLatitudes == {JsUndef, JsStr("0"), JsStr("1")}

QueryLongitudes == {JsStr("0"), JsStr("1")}

QueryMaxResults == {JsUndef, JsStr("1"), JsStr("2")}

\* app.get(/geocode/): GET /geocode?latitude=..&longitude=..&maxResults=..
\* with plain decimal coordinates; without a coordinate it answers 400
Geocode(latitude, longitude, maxResults, reversed) ==
    /\ Truthy(latitude)
    /\ Truthy(longitude)
    /\ LookUp(<<[latitude |-> JsNum(ToNumber(latitude)),
                 longitude |-> JsNum(ToNumber(longitude))]>>,
              FALSE, OrElse(maxResults, JsNum(1)), reversed)

HttpNext ==
    \E latitude \in QueryLatitudes, longitude \in QueryLongitudes,
       maxResults \in QueryMaxResults, reversed \in BOOLEAN :
        Geocode(latitude, longitude, maxResults, reversed)

SpecHttp == QueryInit /\ [][HttpNext]_vars

\* C22: for every lookUp call, those of the HTTP handler included, the index
\* is asked for exactly maxResults + 3 candidates for each point
C22_CandidateOvershoot ==
    (last.called /\ ~last.treeWasNull) =>
        \A i \in 1..Len(last.tasks) : last.tasks[i].asked = last.maxResults + 3

(***************************************************************************)
(* The cities parser over rows of places with and without alternate names  *)
(***************************************************************************)
\* a city line whose own alternatenames column is filled
CityLineWithNames(id, name, names) ==
    [CityLine(id, name, "1", "1", "ES", "09", "", "", "", "10") EXCEPT ![4] = names]

\* rows of the cities dump: place 1 has alternate names in the table (ca
\* Girona, es Gerona), places 2 and 6 have none
NamedCityRows ==
    { CityLineWithNames("1", "Girona", ""),
      CityLineWithNames("1", "Gerona", ""),
      CityLineWithNames("2", "SmallTown", ""),
      CityLineWithNames("6", "Port", "Puerto,Le Port") }

NamedCitiesInit == AtFetchOf("cities", DefaultLoad, Files(NamedCityRows))

SpecNamedCities == NamedCitiesInit /\ [][CitiesNext]_vars

\* the alternate-name table as its parser leaves it
AlternateNameTable == ParseFile(Unloaded, "alternateNames").alternateNames

\* an entry of the table without the languages whose name is the primary name
OtherNames(entry, name) == [x \in {y \in DOMAIN entry : entry[y] /= name} |-> entry[x]]

\* C23: the record of a kept city row whose place id has an entry in the
\* alternate-name table carries that entry without the languages whose name
\* equals the record's primary name; a record without entry carries no mapping
C23_CityAlternates ==
    "cities" \in closed =>
        With(WithCoordinates(dump["cities"]), LAMBDA kept :
            /\ Len(kdTree) = Len(kept)
            /\ \A j \in 1..Len(kept) :
                  kdTree[j].alternateNames =
                      IF kept[j][1] \in DOMAIN AlternateNameTable
                      THEN OtherNames(AlternateNameTable[kept[j][1]], kept[j][2])
                      ELSE JsNull)

(***************************************************************************)
(* The all-countries parser over every short file of feature rows          *)
(***************************************************************************)
\* a row of the all-countries dump for a feature of the province ES.09.GI
FeatureLine(id, name, asciiName, code, a3, a4) ==
    [AdminFeatureLine(id, name, code, "ES", "09", "GI", a3, a4) EXCEPT ![3] = asciiName]

\* rows of the all-countries dump: two ADM3 rows of one key, an ADM3 row of
\* another key, two ADM4 rows of one key, an ADM2 row and a populated place
FeatureRows ==
    { FeatureLine("700", "Girona", "Girona", "ADM3", "17079", ""),
      FeatureLine("701", "Gerona", "Gerona", "ADM3", "17079", ""),
      FeatureLine("702", "Sant Julia de Ramis", "Sant Julia", "ADM3", "17155", ""),
      FeatureLine("703", "Barri Vell", "Barri Vell", "ADM4", "17079", "01"),
      FeatureLine("704", "Call Jueu", "Call Jueu", "ADM4", "17079", "01"),
      FeatureLine("705", "Girona Province", "Provincia de Girona", "ADM2", "", ""),
      CityLine("706", "Port", "1", "1", "ES", "09", "GI", "17079", "01", "10") }

\* init({load: {admin1: false, admin3And4: true}})
Admin3And4Load ==
    LoadOptions([admin1 |-> "false", admin2 |-> "undefined", admin3And4 |-> "true",
                 alternateNames |-> "undefined"])

AllCountriesInit == AtFetchOf("allCountries", Admin3And4Load, Files(FeatureRows))

AllCountriesNext ==
    \/ pc.stage = "allCountries" /\ FetchOk
    \/ pc.stage = "allCountries" /\ ParseLine
    \/ pc.stage = "allCountries" /\ ParseClose

SpecAllCountries == AllCountriesInit /\ [][AllCountriesNext]_vars

\* the key of a feature row down to a level: country.admin1.admin2.admin3
\* and, for level 4, .admin4
FeatureKey(line, level) ==
    line[9] \o "." \o line[11] \o "." \o line[12] \o "." \o line[13]
        \o (IF level = 4 THEN "." \o line[14] ELSE "")

\* the rows of a file with a feature code
RowsWithCode(file, code) == {i \in 1..Len(file) : file[i][8] = code}

\* a table holds, under the keys of the rows of a level and under no other
\* key, the name, asciiName and geoNameId of the last row of each key
HoldsLastRows(table, file, rows, level) ==
    /\ DOMAIN table = {FeatureKey(file[i], level) : i \in rows}
    /\ \A i \in rows :
          (\A j \in rows : FeatureKey(file[j], level) = FeatureKey(file[i], level)
                              => j <= i)
          => /\ table[FeatureKey(file[i], level)].name = JsStr(file[i][2])
             /\ table[FeatureKey(file[i], level)].asciiName = JsStr(file[i][3])
             /\ table[FeatureKey(file[i], level)].geoNameId = JsStr(file[i][1])

\* C24: once the all-countries parser has closed, the admin3 table has an
\* entry under country.admin1.admin2.admin3 exactly for the ADM3 rows and the
\* admin4 table one under country.admin1.admin2.admin3.admin4 exactly for the
\* ADM4 rows, each with the name, asciiName and geoNameId of the last row of
\* its key; rows with another feature code change neither table
C24_Admin3And4Tables ==
    "allCountries" \in closed =>
        With(dump["allCountries"], LAMBDA file :
            /\ HoldsLastRows(admin3Codes, file, RowsWithCode(file, "ADM3"), 3)
            /\ HoldsLastRows(admin4Codes, file, RowsWithCode(file, "ADM4"), 4))

\* the parser has closed over a file with two ADM3 rows of one key, an ADM4
\* row or another feature after them
C24_Witness ==
    /\ "allCountries" \in closed
    /\ With(dump["allCountries"], LAMBDA file :
          /\ Cardinality(RowsWithCode(file, "ADM3")) = 2
          /\ Cardinality(DOMAIN admin3Codes) = 1
          /\ Len(file) = 3
          /\ file[3][8] \in {"ADM4", "ADM2", "PPL"})

\* C25: the alternate-name table is set to null only when init arrives at its
\* completion callback, after the last parser that reads it; it is null
\* whenever the completion callback has run; and no lookUp reads it
C25_TransientAlternateNames ==
    /\ [](pc = Done => alternateNames = JsNull)
    /\ []("alternateNames" \notin DOMAIN last.read)
    /\ [][(alternateNames /= JsNull /\ alternateNames' = JsNull) => pc' = Done]_vars

\* init has parsed every enabled dataset and called back, and a lookUp has
\* delivered lists after it
C25_Witness ==
    /\ pc = Done
    /\ closed = ParsedStages(load)
    /\ alternateNames = JsNull
    /\ DeliveredLists
    /\ last.at = Done

(***************************************************************************)
(* init called again after it has called back                              *)
(***************************************************************************)
\* init(options, callback) once more in the same process: nothing guards it,
\* the series starts over on the fields the first init filled
InitAgain(given) ==
    /\ pc = Done
    /\ load' = LoadOptions(given)
    /\ pc' = At_("alternateNames", "fetch")
    /\ UNCHANGED <<dump, closed, row, data, tables, kdTree, last>>

RepeatedNext ==
    \/ \E given \in LoadInputs : InitCall(given)
    \/ \E given \in LoadInputs : InitAgain(given)
    \/ FetchOk
    \/ SkipStage
    \/ ParseLine
    \/ ParseClose

SpecRepeated == Init /\ [][RepeatedNext]_vars

\* a later init is at a stage whose parser has closed before in this process
LaterInitAtWork == pc.stage \in closed

\* C26: over a sequence of init calls the index is assigned once and never
\* replaced, and no stage of a later init changes the tables lookUp reads
C26_IndexBuiltOnce ==
    [][LaterInitAtWork => (kdTree' = kdTree /\ Current' = Current)]_vars

(***************************************************************************)
(* lookUp over a gazetteer with a large place behind four small ones       *)
(***************************************************************************)
\* four small places one degree from (0, 0) and a large one further away
WindowCitiesFile ==
    << CityLine("21", "North", "1", "0", "ES", "09", "", "", "", "0"),
       CityLine("22", "East", "0", "1", "ES", "09", "", "", "", "0"),
       CityLine("23", "Northton", "1", "0", "ES", "09", "", "", "", "10"),
       CityLine("24", "Easton", "0", "1", "ES", "09", "", "", "", "10"),
       CityLine("25", "Metropolis", "1", "1", "ES", "09", "", "", "", "1000") >>

WindowInit == AtFetchOf("cities", DefaultLoad, {WindowCitiesFile})

WindowPoints == {QueryPoint(0, 0), QueryPoint(1, 1), QueryPoint(2, 2)}

WindowNext ==
    \/ FetchOk
    \/ SkipStage
    \/ ParseLine
    \/ ParseClose
    \/ /\ pc = Done
       /\ \E point \in WindowPoints, k \in 1..MaxResults, reversed \in BOOLEAN :
             LookUp(<<point>>, FALSE, JsNum(k), reversed)

SpecWindow == WindowInit /\ [][WindowNext]_vars

\* the great-circle distance of the i-th point of the last call to a record
DistanceTo(i, r) == _distanceFunc(ParsedPoint(last.points[i]), Coordinates(r))

\* the number of records of the index strictly nearer to the point than r
Nearer(i, r) ==
    Cardinality({n \in 1..Len(kdTree) : DistanceTo(i, kdTree[n]) < DistanceTo(i, r)})

\* C27: every place of a result list of lookUp(points, k) is one of the k + 3
\* places nearest to its point; a place outside that window is not returned,
\* not even when its weighted score is better than that of every place returned
C27_CandidateWindow ==
    DeliveredLists =>
        \A i \in 1..Len(last.results) : \A j \in 1..Len(last.results[i]) :
            Nearer(i, last.results[i][j]) < last.maxResults + 3

\* a list was delivered while a record outside the window has a better
\* weighted score than every place of the list
C27_Witness ==
    /\ DeliveredLists
    /\ Len(last.results) = 1
    /\ Len(last.results[1]) >= 1
    /\ \E n \in 1..Len(kdTree) :
          /\ Nearer(1, kdTree[n]) >= last.maxResults + 3
          /\ \A j \in 1..Len(last.results[1]) :
                (100 + ToNumber(last.results[1][j].population))
                        * DistanceTo(1, kdTree[n]) * DistanceTo(1, kdTree[n])
                    < (100 + ToNumber(kdTree[n].population))
                        * DistanceTo(1, last.results[1][j])
                        * DistanceTo(1, last.results[1][j])

(***************************************************************************)
(* lookUp called with two arguments                                        *)
(***************************************************************************)
\* lookUp(points, callback): arguments.length === 2, maxResults = 1
LookUpDefault(points, single, reversed) == LookUp(points, single, JsNum(1), reversed)

DefaultNext ==
    \/ \E given \in LoadInputs : InitCall(given)
    \/ FetchOk
    \/ SkipStage
    \/ ParseLine
    \/ ParseClose
    \/ \E reversed \in BOOLEAN : LookUpDefault(<<PointDuringInit>>, FALSE, reversed)
    \/ \E k \in 1..MaxResults, reversed \in BOOLEAN :
          LookUp(<<PointDuringInit>>, FALSE, JsNum(k), reversed)

SpecDefault == Init /\ [][DefaultNext]_vars

\* the two-argument call leaves what the call with maxResults 1 leaves
DefaultIsOne ==
    [][\A reversed \in BOOLEAN :
          LookUpDefault(<<PointDuringInit>>, FALSE, reversed) =>
              \E o \in {Outcome_(kdTree, Current, pc, <<PointDuringInit>>, FALSE,
                                 JsNum(1), reversed)} :
                  last' = o.last /\ kdTree' = o.tree]_vars

\* C28: lookUp(points, cb) delivers to cb what lookUp(points, 1, cb) delivers
\* in the same state, and in both forms the callback is invoked exactly once
\* per call
C28_DefaultMaxResults ==
    /\ DefaultIsOne
    /\ [](last.called => last.callbacks = 1)

=============================================================================
